---- MODULE Spec2Model ----
(***************************************************************************)
(* A model of the text-layout primitives of the repository:                *)
(*   - cellbuf.StyleFormatter.Wrap (src/cellbuf/wrap.go), the escape-aware *)
(*     word wrapper, as a state machine with one step per loop iteration;  *)
(*   - vt.Damage and its three Bounds methods (src/vt/damage.go);          *)
(*   - wcwidth.StringWidth / RuneWidth as pinned down by the tests kept in *)
(*     src/vt/damage.go (lines 55-165).                                    *)
(*                                                                         *)
(* Strings are sequences of units.  A unit is one byte/rune of the text,   *)
(* written as a short TLA+ string: "ESC", "LF", "TAB", "BEL" are the       *)
(* control bytes, "W" is a rune two cells wide, every other unit is a      *)
(* printable one-cell ASCII character.  Escape sequences are several units *)
(* long, so a sequence can be cut or truncated.                            *)
(***************************************************************************)
EXTENDS Integers, Sequences, FiniteSets, TLC

(***************************************************************************)
(* Bounds of the model.                                                    *)
(***************************************************************************)
MaxLen == 4          \* tokens in an input of Wrap
MaxLimit == 3        \* largest Limit tried
MaxConcLen == 2      \* tokens in an input of a concurrent Wrap call
MaxConcLimit == 2    \* largest Limit of the shared formatter
MaxCoord == 2        \* largest coordinate / extent of a Damage value
MaxRunes == 3        \* runes in an input of StringWidth
MaxPlainLen == 7     \* tokens in an input of glyphs and spaces
MaxPlainLimit == 4   \* largest Limit tried on such an input
MaxCutLen == 3       \* tokens in an input with unterminated sequences
MaxCutLimit == 2     \* largest Limit tried on such an input

(***************************************************************************)
(* Generic helpers on sequences.                                           *)
(***************************************************************************)
Drop(s, n) == SubSeq(s, n + 1, Len(s))

Take(s, n) == SubSeq(s, 1, n)

RECURSIVE Flatten(_)
Flatten(ss) == IF ss = <<>> THEN <<>> ELSE Head(ss) \o Flatten(Tail(ss))

Rep(x, n) == [i \in 1..n |-> x]

\* All sequences of at most n elements of S.
SeqsUpTo(S, n) == UNION {[1..k -> S] : k \in 0..n}

\* Index of the first element of s at or after i that is in Stop, or
\* Len(s)+1 when there is none.
RECURSIVE FirstFrom(_, _, _)
FirstFrom(s, i, Stop) ==
  IF i > Len(s) THEN Len(s) + 1
  ELSE IF s[i] \in Stop THEN i
  ELSE FirstFrom(s, i + 1, Stop)

\* bytes.Split(p, ";"): the fields of s between the separators.
RECURSIVE SplitOn(_, _)
SplitOn(s, sep) ==
  LET j == FirstFrom(s, 1, {sep})
  IN IF j > Len(s) THEN <<s>>
     ELSE <<Take(s, j - 1)>> \o SplitOn(Drop(s, j), sep)

(***************************************************************************)
(* The units of the text and their classes (ECMA-48).                      *)
(***************************************************************************)
ParamUnits == {"0", "1", "3", "8", ";"}     \* parameter bytes 0x30-0x3F
InterUnits == {" ", "-", "/"}               \* intermediate bytes 0x20-0x2F
FinalUnits == {"m", "a", "u", "[", "]"}     \* final bytes 0x40-0x7E
C0Units == {"ESC", "LF", "TAB", "BEL"}      \* control bytes
WideUnits == {"W"}                          \* a non-ASCII wide rune
Units == ParamUnits \cup InterUnits \cup FinalUnits \cup C0Units \cup WideUnits

\* Display width of a printable unit.
UnitWidth(c) == IF c \in WideUnits THEN 2 ELSE 1

(***************************************************************************)
(* cellbuf.Style and cellbuf.Link, and the ansi sequences for them.        *)
(* A Style is the set of attributes that are on; a Link is URL + Params.   *)
(***************************************************************************)
StyleAttrs == <<"1", "3">>                  \* bold, italic, canonical order

EmptyStyle == {}

EmptyLink == [URL |-> <<>>, Params |-> <<>>]

StyleEmpty(st) == st = {}

LinkEmpty(lk) == lk.URL = <<>> /\ lk.Params = <<>>

ResetStyle == <<"ESC", "[", "m">>

SetHyperlink(url, params) == <<"ESC", "]", "8", ";">> \o params \o <<";">> \o url \o <<"BEL">>

ResetHyperlink == SetHyperlink(<<>>, <<>>)

RECURSIVE JoinAttrs(_)
JoinAttrs(as) ==
  IF as = <<>> THEN <<>>
  ELSE IF Len(as) = 1 THEN <<as[1]>>
  ELSE <<as[1], ";">> \o JoinAttrs(Tail(as))

\* Style.Sequence(): the canonical sequence that reproduces the attributes.
StyleSequence(st) ==
  IF StyleEmpty(st) THEN ResetStyle
  ELSE <<"ESC", "[">> \o JoinAttrs(SelectSeq(StyleAttrs, LAMBDA a : a \in st)) \o <<"m">>

\* ReadStyle(params, &style): fold the SGR parameters into the style.
RECURSIVE ReadStyle(_, _)
ReadStyle(params, st) ==
  IF params = <<>> THEN st
  ELSE LET q == Head(params)
           st1 == IF q = <<>> \/ q = <<"0">> THEN EmptyStyle
                  ELSE IF q = <<"1">> THEN st \cup {"1"}
                  ELSE IF q = <<"3">> THEN st \cup {"3"}
                  ELSE st
       IN ReadStyle(Tail(params), st1)

\* An SGR without parameters resets the style.
ReadStyleParams(params, st) ==
  IF params = <<>> THEN EmptyStyle ELSE ReadStyle(params, st)

\* ReadLink(data, &link): "8;params;url"; anything else leaves the link alone.
ReadLink(data, lk) ==
  LET parts == SplitOn(data, ";")
  IN IF Len(parts) # 3 THEN lk
     ELSE [URL |-> parts[3], Params |-> parts[2]]

(***************************************************************************)
(* The sequence decoder, ansi.DecodeSequenceInString, and the parser it    *)
(* fills.  It returns the consumed text, its display width, the number of  *)
(* units consumed and the next state.  A sequence that meets a unit that   *)
(* cannot continue it is returned without that unit; a sequence that meets *)
(* the end of the input is returned as it is, in a non-ground state.       *)
(***************************************************************************)
NewParser == [cmd |-> "", params |-> <<>>, data |-> <<>>]

\* The parameters of a CSI body: the fields between ";" (none for an empty body).
CsiParams(body) ==
  LET ps == SelectSeq(body, LAMBDA c : c \in ParamUnits)
  IN IF ps = <<>> THEN <<>> ELSE SplitOn(ps, ";")

\* The command of an OSC: its leading number (one digit in this model).
OscCmd(data) ==
  LET f == Head(SplitOn(data, ";"))
  IN IF Len(f) = 1 THEN f[1] ELSE "other"

Decoded(seq, width, st, pp) ==
  [seq |-> seq, width |-> width, n |-> Len(seq), state |-> st, p |-> pp]

DecodeCsi(bb) ==
  LET j == FirstFrom(bb, 3, Units \ (ParamUnits \cup InterUnits))
      body == SubSeq(bb, 3, j - 1)
  IN IF j > Len(bb)
       THEN Decoded(bb, 0, "csi", [NewParser EXCEPT !.params = CsiParams(body)])
     ELSE IF bb[j] \in FinalUnits
       THEN Decoded(Take(bb, j), 0, "ground",
                    [NewParser EXCEPT !.cmd = bb[j], !.params = CsiParams(body)])
     ELSE Decoded(Take(bb, j - 1), 0, "ground",
                  [NewParser EXCEPT !.params = CsiParams(body)])

DecodeOsc(bb) ==
  LET j == FirstFrom(bb, 3, {"BEL", "ESC"})
      data == SubSeq(bb, 3, j - 1)
  IN IF j > Len(bb)
       THEN Decoded(bb, 0, "osc", [NewParser EXCEPT !.data = data])
     ELSE IF bb[j] = "BEL"
       THEN Decoded(Take(bb, j), 0, "ground",
                    [NewParser EXCEPT !.cmd = OscCmd(data), !.data = data])
     ELSE Decoded(Take(bb, j - 1), 0, "ground", [NewParser EXCEPT !.data = data])

DecodeEscape(bb) ==
  IF Len(bb) = 1 THEN Decoded(bb, 0, "esc", NewParser)
  ELSE IF bb[2] = "[" THEN DecodeCsi(bb)
  ELSE IF bb[2] = "]" THEN DecodeOsc(bb)
  ELSE IF bb[2] \in (C0Units \cup WideUnits) THEN Decoded(Take(bb, 1), 0, "ground", NewParser)
  ELSE Decoded(Take(bb, 2), 0, "ground", [NewParser EXCEPT !.cmd = bb[2]])

\* bb is not empty.  The parser keeps what the last sequence left in it unless
\* a new sequence starts.
DecodeSequenceInString(bb, st, pp) ==
  IF bb[1] = "ESC" THEN DecodeEscape(bb)
  ELSE IF bb[1] \in C0Units THEN Decoded(Take(bb, 1), 0, "ground", pp)
  ELSE Decoded(Take(bb, 1), UnitWidth(bb[1]), "ground", pp)

HasCsiPrefix(seq) == Len(seq) >= 2 /\ seq[1] = "ESC" /\ seq[2] = "["

HasOscPrefix(seq) == Len(seq) >= 2 /\ seq[1] = "ESC" /\ seq[2] = "]"

\* The decoded tokens of a whole string, each with its place in it.
RECURSIVE DecodeAllFrom(_, _)
DecodeAllFrom(s, off) ==
  IF s = <<>> THEN <<>>
  ELSE LET d == DecodeSequenceInString(s, "ground", NewParser)
       IN <<[seq |-> d.seq, width |-> d.width, at |-> off + 1, p |-> d.p]>>
          \o DecodeAllFrom(Drop(s, d.n), off + d.n)

DecodeAll(s) == DecodeAllFrom(s, 0)

(***************************************************************************)
(* State.                                                                  *)
(***************************************************************************)
VARIABLES
  input,          \* the argument b of Wrap, as passed
  Limit,          \* s.Limit
  PreserveSpace,  \* s.PreserveSpace
  Breakpoints,    \* s.Breakpoints
  Style,          \* s.Style of the callee's copy of the formatter
  Link,           \* s.Link of the callee's copy of the formatter
  b,              \* the input not decoded yet
  state,          \* decoder state threaded through the loop
  p,              \* the pooled parser
  buf,            \* output buffer
  mark,           \* for each unit of buf, who wrote it (history)
  word,           \* current word buffer
  space,          \* pending space run
  curWidth,       \* width of the current line
  wordLen,        \* width of the current word
  pc,             \* "start", "loop", "done"; "idle" when Wrap is not modelled
  result,         \* the returned string
  pass,           \* 1 for the first wrap, 2 for the re-wrap of its result
  first,          \* the result of the first wrap
  calls,          \* concurrent Wrap calls: call id -> its locals
  formatter,      \* the caller's StyleFormatter value shared by the calls
  pool,           \* the parser pool: the parsers that are free
  sw,             \* a StringWidth call
  dmg             \* a Damage value and the Rectangle Bounds() gave

wrapVars == <<input, Limit, PreserveSpace, Breakpoints, Style, Link, b, state, p,
              buf, mark, word, space, curWidth, wordLen, pc, result, pass, first>>

concVars == <<calls, formatter, pool>>

vars == <<wrapVars, concVars, sw, dmg>>

(***************************************************************************)
(* The closures of Wrap, on the record of the locals they capture:         *)
(* buf, mark, word, space, curWidth, wordLen, Style, Link.                 *)
(***************************************************************************)
NoLocals(st, lk) ==
  [buf |-> <<>>, mark |-> <<>>, word |-> <<>>, space |-> <<>>,
   curWidth |-> 0, wordLen |-> 0, Style |-> st, Link |-> lk]

\* buf.Write / buf.WriteString, recording who wrote.
BufWrite(l, seq, who) ==
  [l EXCEPT !.buf = @ \o seq, !.mark = @ \o Rep(who, Len(seq))]

AddSpace(l) ==
  [BufWrite(l, l.space, "in") EXCEPT !.curWidth = l.curWidth + Len(l.space),
                                     !.space = <<>>]

\* A flush that writes at most two units of the word and keeps the rest.
AddWordCut(l) ==
  IF Len(l.word) = 0 THEN l
  ELSE LET l1 == AddSpace(l)
           k == IF Len(l1.word) > 2 THEN 2 ELSE Len(l1.word)
       IN [BufWrite(l1, Take(l1.word, k), "in") EXCEPT !.curWidth = l1.curWidth + l1.wordLen,
                                                    !.word = Drop(l1.word, k),
                                                    !.wordLen = 0]

AddWord(l) ==
  IF Len(l.word) = 0 THEN l
  ELSE LET l1 == AddSpace(l)
       IN [BufWrite(l1, l1.word, "in") EXCEPT !.curWidth = l1.curWidth + l1.wordLen,
                                             !.word = <<>>,
                                             !.wordLen = 0]

\* addNewline with the resets written after the line feed.
AddNewlineResetsAfter(l, site) ==
  LET l1 == [BufWrite(l, <<"LF">>, site) EXCEPT !.curWidth = 0]
      l2 == IF ~LinkEmpty(l.Link) THEN BufWrite(l1, ResetHyperlink, "rst") ELSE l1
      l3 == IF ~StyleEmpty(l.Style) THEN BufWrite(l2, ResetStyle, "rst") ELSE l2
      l4 == IF ~StyleEmpty(l.Style) THEN BufWrite(l3, StyleSequence(l.Style), "re") ELSE l3
      l5 == IF ~LinkEmpty(l.Link)
              THEN BufWrite(l4, SetHyperlink(l.Link.URL, l.Link.Params), "re") ELSE l4
  IN [l5 EXCEPT !.space = <<>>]

\* addNewline without the space.Reset() of line 119.
AddNewlineKeepSpace(l, site) ==
  LET l1 == IF ~LinkEmpty(l.Link) THEN BufWrite(l, ResetHyperlink, "rst") ELSE l
      l2 == IF ~StyleEmpty(l.Style) THEN BufWrite(l1, ResetStyle, "rst") ELSE l1
      l3 == [BufWrite(l2, <<"LF">>, site) EXCEPT !.curWidth = 0]
      l4 == IF ~StyleEmpty(l.Style) THEN BufWrite(l3, StyleSequence(l.Style), "re") ELSE l3
  IN IF ~LinkEmpty(l.Link)
       THEN BufWrite(l4, SetHyperlink(l.Link.URL, l.Link.Params), "re") ELSE l4

\* site is "lf" (line 162), "pre" (line 186) or "post" (line 197).
AddNewline(l, site) ==
  LET l1 == IF ~LinkEmpty(l.Link) THEN BufWrite(l, ResetHyperlink, "rst") ELSE l
      l2 == IF ~StyleEmpty(l.Style) THEN BufWrite(l1, ResetStyle, "rst") ELSE l1
      l3 == [BufWrite(l2, <<"LF">>, site) EXCEPT !.curWidth = 0]
      l4 == IF ~StyleEmpty(l.Style) THEN BufWrite(l3, StyleSequence(l.Style), "re") ELSE l3
      l5 == IF ~LinkEmpty(l.Link)
              THEN BufWrite(l4, SetHyperlink(l.Link.URL, l.Link.Params), "re") ELSE l4
  IN [l5 EXCEPT !.space = <<>>]

\* A breakpoint that reaches the limit exactly still counts as fitting.
BreakJoinsWordPast(cur, wlen, width, limit) == cur + wlen + width > limit

\* Line 124: the breakpoint does not fit, it becomes part of the word.
BreakJoinsWord(cur, wlen, width, limit) == cur + wlen + width >= limit

\* addBreak without the buf.WriteString(seq) of line 131.
AddBreakLoses(l, seq, width, limit) ==
  LET l1 == AddSpace(l)
  IN IF BreakJoinsWord(l1.curWidth, l1.wordLen, width, limit)
       THEN [l1 EXCEPT !.word = @ \o seq, !.wordLen = @ + width]
     ELSE LET l2 == AddWord(l1)
          IN [l2 EXCEPT !.curWidth = l2.curWidth + width]

AddBreak(l, seq, width, limit) ==
  LET l1 == AddSpace(l)
  IN IF BreakJoinsWord(l1.curWidth, l1.wordLen, width, limit)
       THEN [l1 EXCEPT !.word = @ \o seq, !.wordLen = @ + width]
     ELSE LET l2 == AddWord(l1)
          IN [BufWrite(l2, seq, "in") EXCEPT !.curWidth = l2.curWidth + width]

\* Lines 151-159 and 206-214: what becomes of the pending space at a line end.
EndOfLineSpace(l, limit) ==
  IF l.wordLen = 0
    THEN IF l.curWidth + Len(l.space) > limit
           THEN [l EXCEPT !.curWidth = 0, !.space = <<>>]
         ELSE [BufWrite(l, l.space, "in") EXCEPT !.space = <<>>]
  ELSE l

(***************************************************************************)
(* One iteration of the loop of Wrap (lines 137-204) on a decoded token d. *)
(***************************************************************************)
SpaceUnits == {" ", "TAB", "LF"}

\* len(strings.TrimSpace(seq)) == 0
IsBlank(seq) == \A i \in 1..Len(seq) : seq[i] \in SpaceUnits

\* Without the case of line 174 a hyphen is a breakpoint only if configured.
IsHyphenNever(seq) == FALSE

IsHyphen(seq) == Len(seq) = 1 /\ seq[1] = "-"

runeContainsAny(r, s) == \E i \in 1..Len(s) : s[i] = r

\* Line 176-178: a single rune that is one of the configured breakpoints.
IsConfiguredBreak(seq, bps) == Len(seq) = 1 /\ runeContainsAny(seq[1], bps)

\* Lines 174 and 176: the tokens handed to addBreak.
IsBreakToken(seq, bps) == IsHyphen(seq) \/ IsConfiguredBreak(seq, bps)

\* No hard wrap: a word grows however long it is.
HardWrapNever(wlen, width, limit) == FALSE

\* Line 188: the word is flushed before the token is added to it.
HardWrap(wlen, width, limit) == wlen + width >= limit

\* Lines 144 and 147: the sequences that set the running Style and Link.
IsSgr(seq, pp) == HasCsiPrefix(seq) /\ pp.cmd = "m"

IsOsc8(seq, pp) == HasOscPrefix(seq) /\ pp.cmd = "8"

\* Lines 141-165.
WrapControl(l, d, limit) ==
  LET l1 == IF IsSgr(d.seq, d.p)
              THEN [l EXCEPT !.Style = ReadStyleParams(d.p.params, l.Style)]
            ELSE IF IsOsc8(d.seq, d.p)
              THEN [l EXCEPT !.Link = ReadLink(d.p.data, l.Link)]
            ELSE IF d.seq = <<"LF">>
              THEN AddNewline(AddWord(EndOfLineSpace(l, limit)), "lf")
            ELSE l
  IN [l1 EXCEPT !.word = @ \o d.seq]

\* Lines 184-198.
WrapGlyph(l, d, limit) ==
  LET l1 == IF l.curWidth > limit THEN AddNewline(l, "pre") ELSE l
      l2 == IF HardWrap(l1.wordLen, d.width, limit) THEN AddWord(l1) ELSE l1
      l3 == [l2 EXCEPT !.word = @ \o d.seq, !.wordLen = @ + d.width]
  IN IF l3.curWidth + l3.wordLen + Len(l3.space) > limit
       THEN AddNewline(l3, "post") ELSE l3

\* The whitespace case without the test of line 170: every run is kept.
WrapTextKeepsSpace(l, d, limit, preserve, bps) ==
  IF IsBlank(d.seq)
    THEN LET l1 == AddWord(l)
         IN [l1 EXCEPT !.space = @ \o d.seq]
  ELSE IF IsBreakToken(d.seq, bps) THEN AddBreak(l, d.seq, d.width, limit)
  ELSE WrapGlyph(l, d, limit)

\* Lines 166-199.
WrapText(l, d, limit, preserve, bps) ==
  IF IsBlank(d.seq)
    THEN LET l1 == AddWord(l)
         IN IF preserve \/ l1.curWidth # 0
              THEN [l1 EXCEPT !.space = @ \o d.seq] ELSE l1
  ELSE IF IsBreakToken(d.seq, bps) THEN AddBreak(l, d.seq, d.width, limit)
  ELSE WrapGlyph(l, d, limit)

WrapToken(l, d, limit, preserve, bps) ==
  IF d.width = 0 THEN WrapControl(l, d, limit)
  ELSE WrapText(l, d, limit, preserve, bps)

\* Line 65, `func (s StyleFormatter) Wrap`: the receiver is a copy, so what
\* the call stores in s.Style and s.Link (l) never reaches the caller's value f.
ReceiverAliased(f, l) == [Style |-> l.Style, Link |-> l.Link]

ReceiverAfter(f, l) == f

\* A loop that does not drop what the decoder consumed.
AdvanceNothing(bb, n) == bb

\* Line 203: b = b[n:].
Advance(bb, n) == Drop(bb, n)

\* Lines 206-218.
WrapTail(l, limit) == AddWord(EndOfLineSpace(l, limit))

\* A pass-through of negative limits only.
NoLimitNegative(limit) == limit < 0

\* Line 70: the pass-through of a limit below one.
NoLimit(limit) == limit < 1

\* The whole of Wrap as a function of its input: the loop, then the tail.
RECURSIVE WrapLoop(_, _, _, _, _, _, _)
WrapLoop(l, bb, st, pp, limit, preserve, bps) ==
  IF Len(bb) = 0 THEN WrapTail(l, limit).buf
  ELSE LET d == DecodeSequenceInString(bb, st, pp)
       IN WrapLoop(WrapToken(l, d, limit, preserve, bps), Advance(bb, d.n),
                   d.state, d.p, limit, preserve, bps)

WrapFn(bb, limit, preserve, bps, st, lk) ==
  IF Len(bb) = 0 THEN <<>>
  ELSE IF NoLimit(limit) THEN bb
  ELSE WrapLoop(NoLocals(st, lk), bb, "ground", NewParser, limit, preserve, bps)

(***************************************************************************)
(* Inputs: concatenations of at most MaxLen tokens.                        *)
(***************************************************************************)
TokGlyph == <<"a">>
TokWide == <<"W">>
TokSpace == <<" ">>
TokHyphen == <<"-">>
TokSlash == <<"/">>
TokLF == <<"LF">>
TokBold == <<"ESC", "[", "1", "m">>
TokItalic == <<"ESC", "[", "3", "m">>
TokSgr0 == ResetStyle
TokLink == SetHyperlink(<<"u">>, <<>>)
TokLink0 == ResetHyperlink
TokCut == <<"ESC", "[", "1">>       \* a CSI sequence without its final byte

InputsOver(alphabet) == {Flatten(ts) : ts \in SeqsUpTo(alphabet, MaxLen)}

Limits == -1..MaxLimit

(***************************************************************************)
(* Wrap as a state machine (one call).                                     *)
(***************************************************************************)
Locals ==
  [buf |-> buf, mark |-> mark, word |-> word, space |-> space,
   curWidth |-> curWidth, wordLen |-> wordLen, Style |-> Style, Link |-> Link]

SetLocals(l) ==
  /\ buf' = l.buf
  /\ mark' = l.mark
  /\ word' = l.word
  /\ space' = l.space
  /\ curWidth' = l.curWidth
  /\ wordLen' = l.wordLen
  /\ Style' = l.Style
  /\ Link' = l.Link

IdleConc ==
  /\ calls = <<>>
  /\ formatter = [Style |-> EmptyStyle, Link |-> EmptyLink]
  /\ pool = [free |-> {}, made |-> {}, mem |-> <<>>]

IdleWidth == sw = [s |-> <<>>, i |-> 0, width |-> 0, pc |-> "idle"]

NoPoint == [X |-> 0, Y |-> 0]

NoRectangle == [Min |-> NoPoint, Max |-> NoPoint]

IdleDamage ==
  dmg = [d |-> [kind |-> "none"], d0 |-> [kind |-> "none"], pc |-> "idle",
         bounds |-> NoRectangle]

\* The state when Wrap(in) is called on StyleFormatter{Limit, PreserveSpace,
\* Breakpoints} (line 53, with the option of line 33).
WrapCalled(in, limit, preserve, bps) ==
  /\ input = in
  /\ Limit = limit
  /\ PreserveSpace = preserve
  /\ Breakpoints = bps
  /\ Style = EmptyStyle
  /\ Link = EmptyLink
  /\ b = in
  /\ state = "ground"
  /\ p = NewParser
  /\ buf = <<>>
  /\ mark = <<>>
  /\ word = <<>>
  /\ space = <<>>
  /\ curWidth = 0
  /\ wordLen = 0
  /\ pc = "start"
  /\ result = <<>>
  /\ pass = 1
  /\ first = <<>>

\* Lines 65-83.
WrapEnter ==
  /\ pc = "start"
  /\ IF Len(b) = 0 THEN pc' = "done" /\ result' = <<>>
     ELSE IF NoLimit(Limit) THEN pc' = "done" /\ result' = b
     ELSE pc' = "loop" /\ result' = result
  /\ UNCHANGED <<input, Limit, PreserveSpace, Breakpoints, Style, Link, b, state, p,
                 buf, mark, word, space, curWidth, wordLen, pass, first>>
  /\ UNCHANGED <<concVars, sw, dmg>>

\* Lines 137-204: one iteration.
WrapIter ==
  /\ pc = "loop"
  /\ Len(b) > 0
  /\ LET d == DecodeSequenceInString(b, state, p)
     IN /\ SetLocals(WrapToken(Locals, d, Limit, PreserveSpace, Breakpoints))
        /\ state' = d.state
        /\ p' = d.p
        /\ b' = Advance(b, d.n)
  /\ UNCHANGED <<input, Limit, PreserveSpace, Breakpoints, pc, result, pass, first>>
  /\ UNCHANGED <<concVars, sw, dmg>>

\* Lines 206-218.
WrapReturn ==
  /\ pc = "loop"
  /\ Len(b) = 0
  /\ LET l == WrapTail(Locals, Limit)
     IN SetLocals(l) /\ result' = l.buf
  /\ pc' = "done"
  /\ UNCHANGED <<input, Limit, PreserveSpace, Breakpoints, b, state, p, pass, first>>
  /\ UNCHANGED <<concVars, sw, dmg>>

WrapNext == WrapEnter \/ WrapIter \/ WrapReturn

LayoutAlphabet == {TokGlyph, TokWide, TokSpace, TokHyphen, TokLF, TokBold, TokSgr0}

Init ==
  /\ \E in \in InputsOver(LayoutAlphabet), limit \in Limits, preserve \in BOOLEAN :
       WrapCalled(in, limit, preserve, <<>>)
  /\ IdleConc /\ IdleWidth /\ IdleDamage

Next == WrapNext

Spec == Init /\ [][Next]_vars

(***************************************************************************)
(* Reading a string back: its lines, their widths, its escape sequences    *)
(* and the Style/Link it leaves active.                                    *)
(***************************************************************************)
RECURSIVE LineWidthsFrom(_, _)
LineWidthsFrom(toks, cur) ==
  IF toks = <<>> THEN <<cur>>
  ELSE IF Head(toks).seq = <<"LF">> THEN <<cur>> \o LineWidthsFrom(Tail(toks), 0)
  ELSE LineWidthsFrom(Tail(toks), cur + Head(toks).width)

\* The display width of every line of s: only text tokens count.
LineWidths(s) == LineWidthsFrom(DecodeAll(s), 0)

\* The escape sequences of s, as the decoder delimits them.
EscTokens(s) == SelectSeq(DecodeAll(s), LAMBDA k : k.seq[1] = "ESC")

EscSeqs(s) ==
  LET toks == EscTokens(s)
  IN {toks[i].seq : i \in DOMAIN toks}

RECURSIVE StateAfterFrom(_, _, _)
StateAfterFrom(toks, st, lk) ==
  IF toks = <<>> THEN [Style |-> st, Link |-> lk]
  ELSE LET k == Head(toks)
       IN IF IsSgr(k.seq, k.p)
            THEN StateAfterFrom(Tail(toks), ReadStyleParams(k.p.params, st), lk)
          ELSE IF IsOsc8(k.seq, k.p)
            THEN StateAfterFrom(Tail(toks), st, ReadLink(k.p.data, lk))
          ELSE StateAfterFrom(Tail(toks), st, lk)

\* The Style and Link active after the text s, starting from none.
StateAfter(s) == StateAfterFrom(DecodeAll(s), EmptyStyle, EmptyLink)

\* The units of s whose mark is in tags.
RECURSIVE FilterMarked(_, _, _)
FilterMarked(s, m, tags) ==
  IF s = <<>> THEN <<>>
  ELSE (IF Head(m) \in tags THEN <<Head(s)>> ELSE <<>>)
       \o FilterMarked(Tail(s), Tail(m), tags)

\* The units of buf that follow position i while their mark is in tags.
RunAfter(i, tags) ==
  LET j == FirstFrom(mark, i + 1, {"in", "rst", "re", "lf", "pre", "post"} \ tags)
  IN SubSeq(buf, i + 1, j - 1)

\* The units of buf that precede position i while their mark is in tags.
RECURSIVE StartOfRunBefore(_, _)
StartOfRunBefore(i, tags) ==
  IF i > 1 /\ mark[i - 1] \in tags THEN StartOfRunBefore(i - 1, tags) ELSE i

BreakSites == {"lf", "pre", "post"}       \* every call of addNewline

InsertedSites == {"pre", "post"}          \* the line breaks Wrap adds

BreaksAt(sites) == {i \in DOMAIN buf : mark[i] \in sites}

TextFits(s, limit) ==
  LET toks == DecodeAll(s)
  IN \A i \in DOMAIN toks : toks[i].width <= limit

(***************************************************************************)
(* C1: with limit >= 1 and no text token wider than limit, every line of   *)
(* the output of Wrap has display width at most limit.                     *)
(***************************************************************************)
C1_LinesWithinLimit ==
  (pc = "done" /\ Limit >= 1 /\ TextFits(input, Limit))
    => LET widths == LineWidths(result)
       IN \A i \in DOMAIN widths : widths[i] <= Limit

(***************************************************************************)
(* C2: at every line break, the Style and Link re-applied at the start of  *)
(* the new line are those accumulated from the input sequences that        *)
(* precede the first token placed on the new line, that is from the input  *)
(* already written to the output when the break is made.                   *)
(***************************************************************************)
C2_ReappliedIsStateAtLineStart ==
  \A i \in BreaksAt(BreakSites) :
    StateAfter(RunAfter(i, {"re"}))
      = StateAfter(FilterMarked(Take(buf, i), Take(mark, i), {"in"}))

(***************************************************************************)
(* A second family of inputs, rich in escape sequences: styles, a link and *)
(* a sequence that lacks its final byte.                                   *)
(***************************************************************************)
SequenceAlphabet == {TokGlyph, TokSpace, TokLF, TokBold, TokSgr0, TokLink, TokCut}

InitSeq ==
  /\ \E in \in InputsOver(SequenceAlphabet), limit \in Limits, preserve \in BOOLEAN :
       WrapCalled(in, limit, preserve, <<>>)
  /\ IdleConc /\ IdleWidth /\ IdleDamage

SpecSeq == InitSeq /\ [][Next]_vars

\* The marks of the units of the result: a pass-through result is all input.
ResultMark == IF result = buf THEN mark ELSE Rep("in", Len(result))

MarksOf(k) == {ResultMark[j] : j \in k.at..(k.at + Len(k.seq) - 1)}

\* The sequences addNewline may write.
IsResetSeq(seq) == seq \in {ResetStyle, ResetHyperlink}

\* The hyperlinks the sequences of s can set.
LinksOf(s) ==
  LET toks == EscTokens(s)
  IN {ReadLink(toks[k].p.data, EmptyLink) : k \in DOMAIN toks}

IsReapplySeq(seq, links) ==
  \/ \E st \in (SUBSET {"1", "3"}) \ {{}} : seq = StyleSequence(st)
  \/ \E lk \in links : seq = SetHyperlink(lk.URL, lk.Params)

(***************************************************************************)
(* C3 as stated: every escape sequence of the output appears intact in the *)
(* input.                                                                  *)
(***************************************************************************)
C3_OutputSequencesFromInput ==
  pc = "done" => EscSeqs(result) \subseteq EscSeqs(input)

(***************************************************************************)
(* C3 amended: every escape sequence of the output is either a sequence of *)
(* the input, whole and written by one flush of input text, or a reset or  *)
(* re-application sequence that addNewline wrote at a line break.          *)
(***************************************************************************)
C3_SequencesIntactOrInserted ==
  pc = "done" =>
    LET toks == EscTokens(result)
        given == EscSeqs(input)
        links == LinksOf(input)
    IN \A i \in DOMAIN toks :
         \/ MarksOf(toks[i]) = {"in"} /\ toks[i].seq \in given
         \/ MarksOf(toks[i]) = {"rst"} /\ IsResetSeq(toks[i].seq)
         \/ MarksOf(toks[i]) = {"re"} /\ IsReapplySeq(toks[i].seq, links)

\* A truncated sequence and a styled word went through a line break.
C3_Witness ==
  /\ pc = "done"
  /\ input = TokBold \o TokCut \o TokLF \o TokGlyph
  /\ Limit = 1
  /\ TokCut \in EscSeqs(result)
  /\ \E i \in DOMAIN result : ResultMark[i] = "re"

(***************************************************************************)
(* C4: for every limit <= 0 Wrap returns its input unchanged.              *)
(***************************************************************************)
C4_NoLimitIsIdentity ==
  (pc = "done" /\ Limit <= 0) => result = input

\* A pass-through of an input that a positive limit would have changed.
C4_Witness ==
  /\ pc = "done"
  /\ Limit = 0
  /\ input = TokGlyph \o TokSpace \o TokBold \o TokGlyph
  /\ result = input
  /\ WrapFn(input, 1, PreserveSpace, Breakpoints, EmptyStyle, EmptyLink) # input

(***************************************************************************)
(* The text on both sides of a line break of buf.                          *)
(***************************************************************************)
Marks == {"in", "rst", "re", "lf", "pre", "post"}

\* The last unit of the old line: the input unit before the resets, if any.
PrevUnit(i) ==
  LET s == StartOfRunBefore(i, {"rst"})
  IN IF s > 1 /\ mark[s - 1] = "in" THEN buf[s - 1] ELSE "none"

\* Where the input text of the new line starts: after the re-applications.
NewLineStart(i) == i + 1 + Len(RunAfter(i, {"re"}))

\* The first unit of the new line.
NextUnit(i) ==
  LET j == NewLineStart(i)
  IN IF j <= Len(buf) /\ mark[j] = "in" THEN buf[j] ELSE "none"

\* The word that follows the break: input text up to the next space or
\* inserted unit.
WordAfter(i) ==
  LET j == NewLineStart(i)
      e1 == FirstFrom(mark, j, Marks \ {"in"})
      e2 == FirstFrom(buf, j, {" "})
  IN SubSeq(buf, j, (IF e1 < e2 THEN e1 ELSE e2) - 1)

HasBreakRune(s, bps) ==
  LET toks == DecodeAll(s)
  IN \E k \in DOMAIN toks : toks[k].width > 0 /\ IsBreakToken(toks[k].seq, bps)

\* Wrap("hello world", 5, "") = "hello\nworld", in the letters of the model.
HelloWorld == <<"m", "a", "u", "u", "a", " ", "a", "a", "m", "u", "m">>

HelloWorldWrapped == <<"m", "a", "u", "u", "a", "LF", "a", "a", "m", "u", "m">>

HelloWorldHolds ==
  WrapFn(HelloWorld, 5, FALSE, <<>>, EmptyStyle, EmptyLink) = HelloWorldWrapped

Rewrap ==
  /\ pc = "done"
  /\ pass = 1
  /\ pass' = 2
  /\ first' = result
  /\ b' = result
  /\ Style' = EmptyStyle
  /\ Link' = EmptyLink
  /\ state' = "ground"
  /\ p' = NewParser
  /\ buf' = <<>>
  /\ mark' = <<>>
  /\ word' = <<>>
  /\ space' = <<>>
  /\ curWidth' = 0
  /\ wordLen' = 0
  /\ pc' = "start"
  /\ result' = <<>>
  /\ UNCHANGED <<input, Limit, PreserveSpace, Breakpoints>>
  /\ UNCHANGED <<concVars, sw, dmg>>

RewrapAlphabet == {TokGlyph, TokSpace, TokHyphen, TokLF, TokBold}

InitRewrap ==
  /\ \E in \in InputsOver(RewrapAlphabet), limit \in 1..MaxLimit, preserve \in BOOLEAN :
       WrapCalled(in, limit, preserve, <<>>)
  /\ IdleConc /\ IdleWidth /\ IdleDamage

NextRewrap == WrapNext \/ Rewrap

SpecRewrap == InitRewrap /\ [][NextRewrap]_vars

RECURSIVE VisibleLinesFrom(_, _)
VisibleLinesFrom(toks, cur) ==
  IF toks = <<>> THEN <<cur>>
  ELSE IF Head(toks).seq = <<"LF">> THEN <<cur>> \o VisibleLinesFrom(Tail(toks), <<>>)
  ELSE IF Head(toks).width > 0 THEN VisibleLinesFrom(Tail(toks), cur \o Head(toks).seq)
  ELSE VisibleLinesFrom(Tail(toks), cur)

\* The lines of s, each as the text it shows (escape sequences left out).
VisibleLines(s) == VisibleLinesFrom(DecodeAll(s), <<>>)

(***************************************************************************)
(* C6: wrapping the result of Wrap again at the same limit, its line       *)
(* breaks read as line feeds, gives the same sequence of lines.            *)
(***************************************************************************)
C6_RewrapKeepsLines ==
  (pass = 2 /\ pc = "done") => VisibleLines(result) = VisibleLines(first)

(***************************************************************************)
(* Inputs with both kinds of breakpoint rune, under each configuration.    *)
(***************************************************************************)
BreakAlphabet == {TokGlyph, TokWide, TokSpace, TokHyphen, TokSlash, TokBold}

InitBreak ==
  /\ \E in \in InputsOver(BreakAlphabet), limit \in Limits, preserve \in BOOLEAN,
        bps \in {<<>>, <<"/">>} :
       WrapCalled(in, limit, preserve, bps)
  /\ IdleConc /\ IdleWidth /\ IdleDamage

SpecBreak == InitBreak /\ [][Next]_vars

\* s with its hyphens and slashes exchanged.
Swap(s) ==
  [i \in DOMAIN s |-> IF s[i] = "-" THEN "/" ELSE IF s[i] = "/" THEN "-" ELSE s[i]]

(***************************************************************************)
(* C7: a hyphen is always a breakpoint.  Wrap with the breakpoints B gives *)
(* the output of Wrap with B plus '-', and where '/' is configured the     *)
(* hyphen is handled as '/' is: exchanging the two in the input exchanges  *)
(* them in the output and changes nothing else.                            *)
(***************************************************************************)
C7_HyphenAlwaysBreakpoint ==
  pc = "done" =>
    /\ result = WrapFn(input, Limit, PreserveSpace, Breakpoints \o <<"-">>,
                       EmptyStyle, EmptyLink)
    /\ runeContainsAny("/", Breakpoints) =>
         Swap(result) = WrapFn(Swap(input), Limit, PreserveSpace, Breakpoints,
                               EmptyStyle, EmptyLink)

\* Hyphens that no configuration names, joined to a word that outgrows the line.
C7_Witness ==
  /\ pc = "done"
  /\ Breakpoints = <<>>
  /\ input = TokHyphen \o TokHyphen \o TokGlyph
  /\ Limit = 1
  /\ result = TokHyphen \o TokHyphen \o TokLF \o TokGlyph

(***************************************************************************)
(* Several Wrap calls on one StyleFormatter value, interleaved step by     *)
(* step.  Each call owns the locals of lines 77-83 and the parser it took  *)
(* from the pool (line 74) until the deferred release (line 75).           *)
(***************************************************************************)
Calls == {"A", "B"}

ParserIds == {1, 2}

ConcAlphabet == {TokGlyph, TokBold, TokLF}

ConcInputs == {Flatten(ts) : ts \in SeqsUpTo(ConcAlphabet, MaxConcLen)}

NewCall(in, f) ==
  [pc |-> "start", input |-> in, b |-> in, state |-> "ground", pid |-> 0,
   l |-> NoLocals(EmptyStyle, EmptyLink), result |-> <<>>, f0 |-> f]

InitConc ==
  /\ \E f \in {[Style |-> EmptyStyle, Link |-> EmptyLink],
              [Style |-> {"1"}, Link |-> EmptyLink]},
        ins \in [Calls -> ConcInputs], limit \in 0..MaxConcLimit :
       /\ formatter = f
       /\ calls = [c \in Calls |-> NewCall(ins[c], f)]
       /\ WrapCalled(<<>>, limit, FALSE, <<>>)
  /\ pool = [free |-> {}, made |-> {}, mem |-> [i \in ParserIds |-> NewParser]]
  /\ IdleWidth /\ IdleDamage

\* ansi.GetParser: a parser that is free, as it was released, or a new one.
GetParser(id) ==
  /\ id \in pool.free \cup (ParserIds \ pool.made)
  /\ pool' = [pool EXCEPT !.free = @ \ {id}, !.made = @ \cup {id}]

\* ansi.PutParser: the parser goes back to the pool with what it holds.
PutParser(id) == pool' = [pool EXCEPT !.free = @ \cup {id}]

\* Lines 65-83.
ConcEnter(c) ==
  /\ calls[c].pc = "start"
  /\ LET k == calls[c]
     IN IF Len(k.b) = 0
          THEN /\ calls' = [calls EXCEPT ![c].pc = "done", ![c].result = <<>>]
               /\ pool' = pool
        ELSE IF NoLimit(Limit)
          THEN /\ calls' = [calls EXCEPT ![c].pc = "done", ![c].result = k.b]
               /\ pool' = pool
        ELSE \E id \in ParserIds :
               /\ GetParser(id)
               /\ calls' = [calls EXCEPT ![c].pc = "loop", ![c].pid = id,
                                         ![c].l = NoLocals(formatter.Style, formatter.Link)]
  /\ UNCHANGED <<wrapVars, formatter, sw, dmg>>

\* Lines 137-204: one iteration of one call.
ConcIter(c) ==
  /\ calls[c].pc = "loop"
  /\ Len(calls[c].b) > 0
  /\ LET k == calls[c]
         d == DecodeSequenceInString(k.b, k.state, pool.mem[k.pid])
         l == WrapToken(k.l, d, Limit, PreserveSpace, Breakpoints)
     IN /\ calls' = [calls EXCEPT ![c].l = l, ![c].state = d.state,
                                  ![c].b = Advance(k.b, d.n)]
        /\ pool' = [pool EXCEPT !.mem[k.pid] = d.p]
        /\ formatter' = ReceiverAfter(formatter, l)
  /\ UNCHANGED <<wrapVars, sw, dmg>>

\* Lines 206-218, and the deferred ansi.PutParser of line 75.
ConcReturn(c) ==
  /\ calls[c].pc = "loop"
  /\ Len(calls[c].b) = 0
  /\ LET l == WrapTail(calls[c].l, Limit)
     IN calls' = [calls EXCEPT ![c].l = l, ![c].result = l.buf, ![c].pc = "done"]
  /\ PutParser(calls[c].pid)
  /\ UNCHANGED <<wrapVars, formatter, sw, dmg>>

NextConc == \E c \in Calls : ConcEnter(c) \/ ConcIter(c) \/ ConcReturn(c)

SpecConc == InitConc /\ [][NextConc]_vars

(***************************************************************************)
(* C8: the state of Wrap is local to one call.  Whatever the interleaving  *)
(* and whatever parser the pool hands out, a call returns what it returns  *)
(* when it runs alone on the formatter as the caller holds it, and the     *)
(* caller's formatter keeps its Style and Link.                            *)
(***************************************************************************)
C8_CallsAreIndependent ==
  \A c \in DOMAIN calls :
    /\ formatter = calls[c].f0
    /\ calls[c].pc = "done" =>
         calls[c].result = WrapFn(calls[c].input, Limit, PreserveSpace, Breakpoints,
                                  calls[c].f0.Style, calls[c].f0.Link)

\* Both calls have returned; B ran on the parser A released, and A left a
\* style open in its own copy of the formatter.
C8_Witness ==
  /\ DOMAIN calls = Calls
  /\ calls["A"].pc = "done" /\ calls["B"].pc = "done"
  /\ calls["A"].pid = calls["B"].pid /\ calls["A"].pid # 0
  /\ calls["A"].input = TokBold \o TokGlyph
  /\ calls["B"].input = TokGlyph \o TokLF
  /\ calls["A"].l.Style = {"1"}
  /\ formatter.Style = EmptyStyle
  /\ Limit = 1

(***************************************************************************)
(* wcwidth.RuneWidth and wcwidth.StringWidth.  The runes are those of the  *)
(* tests of src/vt/damage.go; "invalid" is a byte that decodes to no rune. *)
(***************************************************************************)
WideRunes ==
  {"woman", "cook", "man", "girl", "rainbow", "hiragana_a", "hiragana_i",
   "kabu", "hiragana_no", "kanji_se", "kanji_kai", "katakana"}

\* "square", "circled_one" and "star" are of ambiguous width: narrow by default.
NarrowRunes == {"a", "flag", "star", "square", "circled_one", "invalid"}

ZeroRunes == {"zwj", "vs16", "combining", "nul"}

Runes == WideRunes \cup NarrowRunes \cup ZeroRunes

RuneWidth(r) ==
  IF r \in ZeroRunes THEN 0
  ELSE IF r \in WideRunes THEN 2
  ELSE 1

\* A width function that draws a ZWJ-joined sequence as one glyph: the rune
\* after a joiner adds nothing.
JoinedRuneWidth(s, i) ==
  IF i > 1 /\ s[i - 1] = "zwj" THEN 0 ELSE RuneWidth(s[i])

\* What one round of the loop of StringWidth adds for the rune s[i].
StringWidthStep(s, i) == RuneWidth(s[i])

\* The strings and expected widths of TestZeroWidthJoiner.
ZwjTests ==
  { <<<<"woman">>, 2>>,
    <<<<"woman", "zwj">>, 2>>,
    <<<<"woman", "zwj", "cook">>, 4>>,
    <<<<"zwj", "cook">>, 2>>,
    <<<<"man", "zwj", "man">>, 4>>,
    <<<<"man", "zwj", "man", "zwj", "girl">>, 6>>,
    <<<<"flag", "vs16", "zwj", "rainbow">>, 3>>,
    <<<<"hiragana_a", "woman", "zwj", "cook", "hiragana_i">>, 8>>,
    <<<<"hiragana_a", "zwj", "cook", "hiragana_i">>, 6>>,
    <<<<"hiragana_a", "zwj", "hiragana_i">>, 4>>,
    <<<<"a", "a", "a">>, 3>>,
    <<<<"hiragana_a", "hiragana_i">>, 4>> }

\* The strings and expected widths of TestStringWidth (the default mode).
StringWidthTests ==
  { <<<<"square", "kabu", "hiragana_no", "kanji_se", "kanji_kai", "circled_one">>, 10>>,
    <<<<"katakana", "katakana", "katakana", "star">>, 7>>,
    <<<<"hiragana_no", "hiragana_no", "hiragana_no", "star", "a", "a", "a", "a">>, 11>> }

WidthTests == ZwjTests \cup StringWidthTests

WidthAlphabet == {"woman", "man", "zwj", "vs16", "combining", "flag", "a"}

WidthInputs == SeqsUpTo(WidthAlphabet, MaxRunes) \cup {t[1] : t \in WidthTests}

InitWidth ==
  /\ \E s \in WidthInputs : sw = [s |-> s, i |-> 0, width |-> 0, pc |-> "loop"]
  /\ WrapCalled(<<>>, 0, FALSE, <<>>)
  /\ IdleConc /\ IdleDamage

\* One round of `for _, r := range s { width += RuneWidth(r) }`.
StringWidthIter ==
  /\ sw.pc = "loop"
  /\ sw.i < Len(sw.s)
  /\ sw' = [sw EXCEPT !.i = @ + 1, !.width = @ + StringWidthStep(sw.s, sw.i + 1)]
  /\ UNCHANGED <<wrapVars, concVars, dmg>>

StringWidthReturn ==
  /\ sw.pc = "loop"
  /\ sw.i = Len(sw.s)
  /\ sw' = [sw EXCEPT !.pc = "done"]
  /\ UNCHANGED <<wrapVars, concVars, dmg>>

NextWidth == StringWidthIter \/ StringWidthReturn

SpecWidth == InitWidth /\ [][NextWidth]_vars

\* s without its zero-width runes.
Visible(s) == SelectSeq(s, LAMBDA r : r \notin ZeroRunes)

RECURSIVE SumWidths(_)
SumWidths(s) == IF s = <<>> THEN 0 ELSE RuneWidth(Head(s)) + SumWidths(Tail(s))

(***************************************************************************)
(* C9: StringWidth(s) is the sum of RuneWidth over the runes of s.  The    *)
(* zero-width runes add nothing and change no neighbour's width, so s      *)
(* and s without them have the same width, and the widths are those the    *)
(* tests of the repository expect (two joined wide emoji 4, three 6).      *)
(***************************************************************************)
C9_StringWidthAdditive ==
  sw.pc = "done" =>
    /\ sw.width = SumWidths(sw.s)
    /\ sw.width = SumWidths(Visible(sw.s))
    /\ sw.width = 2 * Cardinality({i \in DOMAIN sw.s : sw.s[i] \in WideRunes})
                  + Cardinality({i \in DOMAIN sw.s : sw.s[i] \in NarrowRunes})
    /\ \A t \in WidthTests : sw.s = t[1] => sw.width = t[2]

\* Three wide emoji joined by two joiners: width 6.
C9_Witness ==
  /\ sw.pc = "done"
  /\ sw.s = <<"man", "zwj", "man", "zwj", "girl">>
  /\ sw.width = 6

(***************************************************************************)
(* vt.Damage: CellDamage, RectDamage, ScreenDamage and their Bounds.       *)
(* A Rectangle is image.Rectangle: the corners Min and Max.                *)
(***************************************************************************)
Pos(x, y) == [X |-> x, Y |-> y]

Rect(x, y, w, h) == [Min |-> Pos(x, y), Max |-> Pos(x + w, y + h)]

RectX(r) == r.Min.X

RectY(r) == r.Min.Y

RectWidth(r) == r.Max.X - r.Min.X

RectHeight(r) == r.Max.Y - r.Min.Y

Coords == 0..MaxCoord

CellDamages == {[kind |-> "cell", X |-> x, Y |-> y] : x \in Coords, y \in Coords}

RectDamages ==
  {[kind |-> "rect", r |-> Rect(x, y, w, h)] : x \in Coords, y \in Coords,
                                               w \in Coords, h \in Coords}

ScreenDamages ==
  {[kind |-> "screen", Width |-> w, Height |-> h] : w \in Coords, h \in Coords}

\* A cell damage that covers nothing.
CellDamageBoundsEmpty(d) == Rect(d.X, d.Y, 0, 0)

\* Lines 13-15.
CellDamageBounds(d) == Rect(d.X, d.Y, 1, 1)

\* Lines 21-23.
RectDamageBounds(d) == d.r

\* Lines 51-53.
ScreenDamageBounds(d) == Rect(0, 0, d.Width, d.Height)

InitDamage ==
  /\ \E d \in CellDamages \cup RectDamages \cup ScreenDamages :
       dmg = [d |-> d, d0 |-> d, pc |-> "call", bounds |-> NoRectangle]
  /\ WrapCalled(<<>>, 0, FALSE, <<>>)
  /\ IdleConc /\ IdleWidth

BoundsReturns(r) ==
  /\ dmg.pc = "call"
  /\ dmg' = [dmg EXCEPT !.pc = "done", !.bounds = r]
  /\ UNCHANGED <<wrapVars, concVars, sw>>

CellBounds == dmg.d.kind = "cell" /\ BoundsReturns(CellDamageBounds(dmg.d))

RectBounds == dmg.d.kind = "rect" /\ BoundsReturns(RectDamageBounds(dmg.d))

ScreenBounds == dmg.d.kind = "screen" /\ BoundsReturns(ScreenDamageBounds(dmg.d))

NextDamage == CellBounds \/ RectBounds \/ ScreenBounds

SpecDamage == InitDamage /\ [][NextDamage]_vars

\* The rectangle with the given origin and extent.
IsRect(r, x, y, w, h) ==
  RectX(r) = x /\ RectY(r) = y /\ RectWidth(r) = w /\ RectHeight(r) = h

(***************************************************************************)
(* C10: Bounds() of a CellDamage at (x, y) is the rectangle (x, y, 1, 1),  *)
(* of a RectDamage its own rectangle, of a ScreenDamage of width w and     *)
(* height h the rectangle (0, 0, w, h); the damage value is not modified.  *)
(***************************************************************************)
C10_BoundsCoverDamage ==
  dmg.pc = "done" =>
    /\ dmg.d = dmg.d0
    /\ dmg.d.kind = "cell" => IsRect(dmg.bounds, dmg.d0.X, dmg.d0.Y, 1, 1)
    /\ dmg.d.kind = "rect" =>
         /\ dmg.bounds = dmg.d0.r
         /\ IsRect(dmg.bounds, RectX(dmg.d0.r), RectY(dmg.d0.r),
                   RectWidth(dmg.d0.r), RectHeight(dmg.d0.r))
    /\ dmg.d.kind = "screen" => IsRect(dmg.bounds, 0, 0, dmg.d0.Width, dmg.d0.Height)

\* CellDamage{X:1,Y:1}.Bounds() = Rectangle(1,1,1,1).
C10_Witness ==
  /\ dmg.pc = "done"
  /\ dmg.d = [kind |-> "cell", X |-> 1, Y |-> 1]
  /\ dmg.bounds = Rect(1, 1, 1, 1)

(***************************************************************************)
(* The content of a string: its tokens, in order, without the whitespace   *)
(* text tokens.                                                            *)
(***************************************************************************)
RECURSIVE ContentFrom(_)
ContentFrom(toks) ==
  IF toks = <<>> THEN <<>>
  ELSE (IF Head(toks).width > 0 /\ IsBlank(Head(toks).seq) THEN <<>> ELSE <<Head(toks).seq>>)
       \o ContentFrom(Tail(toks))

Content(s) == ContentFrom(DecodeAll(s))

\* s is t with some of its units left out.
RECURSIVE IsSubseq(_, _)
IsSubseq(s, t) ==
  IF s = <<>> THEN TRUE
  ELSE IF t = <<>> THEN FALSE
  ELSE IF Head(s) = Head(t) THEN IsSubseq(Tail(s), Tail(t))
  ELSE IsSubseq(s, Tail(t))

\* The units of buf that come from the input.
Kept == FilterMarked(buf, mark, {"in"})

(***************************************************************************)
(* C11: with limit >= 1 Wrap drops, duplicates and reorders nothing.  The  *)
(* output is made of units of the input, in their order, and of units that *)
(* addNewline inserted; what is left out of the input is whitespace        *)
(* tokens only, so every other token of the input is in the output once,   *)
(* in its place; what is inserted is line breaks and reset and             *)
(* re-application sequences.                                               *)
(***************************************************************************)
C11_ContentKept ==
  (pc = "done" /\ Limit >= 1) =>
    LET added == DecodeAll(FilterMarked(buf, mark, {"rst", "re"}))
        links == LinksOf(input)
    IN /\ Content(Kept) = Content(input)
       /\ IsSubseq(Kept, input)
       /\ \A i \in DOMAIN buf : mark[i] \in BreakSites => buf[i] = "LF"
       /\ \A k \in DOMAIN added :
            IsResetSeq(added[k].seq) \/ IsReapplySeq(added[k].seq, links)

\* A styled word, a space that the break removes, and a second word.
C11_Witness ==
  /\ pc = "done"
  /\ Limit = 1
  /\ input = TokBold \o TokGlyph \o TokSpace \o TokGlyph
  /\ Len(Kept) < Len(input)
  /\ \E i \in DOMAIN buf : mark[i] = "re"
  /\ \E i \in DOMAIN buf : mark[i] = "post"

\* The number of lines of s: one more than its line feeds.
LineCount(s) == Len(LineWidths(s))

\* Every line of s is at most limit wide.
LinesFit(s, limit) ==
  LET widths == LineWidths(s)
  IN \A i \in DOMAIN widths : widths[i] <= limit

(***************************************************************************)
(* C12: a line-feed token of the input gives one line break in the output: *)
(* the output of an input whose lines all fit within limit has as many     *)
(* lines as the input.                                                     *)
(***************************************************************************)
C12_OneBreakPerLineFeed ==
  (pc = "done" /\ Limit >= 1 /\ LinesFit(input, Limit))
    => LineCount(result) = LineCount(input)

(***************************************************************************)
(* What one step adds to buf around a line break at position i of the new  *)
(* buffer bf with marks mk.                                                *)
(***************************************************************************)
\* The inserted units just before i whose mark is tag, as far as they go.
RECURSIVE RunStart(_, _, _)
RunStart(mk, i, tag) ==
  IF i > 1 /\ mk[i - 1] = tag THEN RunStart(mk, i - 1, tag) ELSE i

RunBefore(bf, mk, i, tag) == SubSeq(bf, RunStart(mk, i, tag), i - 1)

\* The inserted units just after i whose mark is tag, as far as they go.
RunBehind(bf, mk, i, tag) ==
  SubSeq(bf, i + 1, FirstFrom(mk, i + 1, Marks \ {tag}) - 1)

\* The resets and the re-applications of the Style st and the Link lk.
ResetsOf(st, lk) ==
  (IF ~LinkEmpty(lk) THEN ResetHyperlink ELSE <<>>)
    \o (IF ~StyleEmpty(st) THEN ResetStyle ELSE <<>>)

ReappliedOf(st, lk) ==
  (IF ~StyleEmpty(st) THEN StyleSequence(st) ELSE <<>>)
    \o (IF ~LinkEmpty(lk) THEN SetHyperlink(lk.URL, lk.Params) ELSE <<>>)

\* The line breaks that the step from buf to buf' wrote.
NewBreaks == {i \in (Len(buf) + 1)..Len(buf') : mark'[i] \in BreakSites}

(***************************************************************************)
(* C13 as stated: every step that emits a line break writes the line feed  *)
(* first, then the resets of the open Style and Link, then at once their   *)
(* re-application; with neither open it writes the line feed only.         *)
(***************************************************************************)
C13_BreakThenResetThenReapply ==
  [][\A i \in NewBreaks :
       /\ RunBefore(buf', mark', i, "rst") = <<>>
       /\ RunBehind(buf', mark', i, "rst") = ResetsOf(Style, Link)
       /\ LET j == i + Len(ResetsOf(Style, Link))
          IN RunBehind(buf', mark', j, "re") = ReappliedOf(Style, Link)]_vars

(***************************************************************************)
(* C13 amended: every step that emits a line break writes the resets of    *)
(* the open Link and Style first, then the line feed, then at once the     *)
(* re-application of the Style and the Link; with neither open it writes   *)
(* the line feed only.                                                     *)
(***************************************************************************)
C13_ResetThenBreakThenReapply ==
  [][\A i \in NewBreaks :
       /\ RunBefore(buf', mark', i, "rst") = ResetsOf(Style, Link)
       /\ RunBehind(buf', mark', i, "re") = ReappliedOf(Style, Link)
       /\ RunBehind(buf', mark', i, "rst") = <<>>]_vars

\* A break made with a style and a link open, and one made with neither.
C13_Witness ==
  /\ pc = "done"
  /\ input = TokLF \o TokBold \o TokLink \o TokLF
  /\ Limit = 1
  /\ result = TokLF \o TokLF \o TokBold \o TokLink
                \o ResetHyperlink \o ResetStyle \o TokLF \o TokBold \o TokLink \o TokLF

\* The sequences that addNewline wrote just before the line break at i.
ResetsBefore(i) ==
  LET toks == DecodeAll(RunBefore(buf, mark, i, "rst"))
  IN {toks[k].seq : k \in DOMAIN toks}

\* The Style and Link open in the output written before the line break at i
\* and its resets.
OpenBefore(i) == StateAfter(Take(buf, RunStart(mark, i, "rst") - 1))

(***************************************************************************)
(* C14: at every line break that Wrap inserts, a style reset is written    *)
(* exactly when a style is open in the output written so far, and a        *)
(* hyperlink reset exactly when a hyperlink is: sequences still held in    *)
(* the pending word do not count.                                          *)
(***************************************************************************)
C14_ResetIffOpenInOutput ==
  \A i \in BreaksAt(InsertedSites) :
    /\ (ResetStyle \in ResetsBefore(i)) <=> ~StyleEmpty(OpenBefore(i).Style)
    /\ (ResetHyperlink \in ResetsBefore(i)) <=> ~LinkEmpty(OpenBefore(i).Link)

(***************************************************************************)
(* The step of Wrap on a breakpoint token: a hyphen or a configured rune.  *)
(***************************************************************************)
\* The token that the next iteration decodes.
NextToken == DecodeSequenceInString(b, state, p)

AtBreakToken ==
  /\ pc = "loop"
  /\ Len(b) > 0
  /\ NextToken.width > 0
  /\ ~IsBlank(NextToken.seq)
  /\ IsBreakToken(NextToken.seq, Breakpoints)

\* Line width + word width + breakpoint width < limit, the pending space
\* counted in the line.
BreakFits == curWidth + Len(space) + wordLen + NextToken.width < Limit

\* The pending space is written to the line.
SpaceFlushed == space' = <<>> /\ curWidth' >= curWidth + Len(space)

(***************************************************************************)
(* C15 as stated: the pending space is flushed; a breakpoint that fits is  *)
(* appended to the current word; one that does not fit makes the word be   *)
(* flushed and becomes the first glyph of a fresh word.                    *)
(***************************************************************************)
C15_FittingBreakJoinsWord ==
  [][AtBreakToken =>
       /\ SpaceFlushed
       /\ IF BreakFits
            THEN /\ buf' = buf \o space
                 /\ word' = word \o NextToken.seq
                 /\ wordLen' = wordLen + NextToken.width
          ELSE /\ buf' = buf \o space \o word
               /\ word' = NextToken.seq
               /\ wordLen' = NextToken.width]_vars

(***************************************************************************)
(* C15 amended: the pending space is flushed; a breakpoint that fits       *)
(* (line width + word width + breakpoint width < limit) makes the current  *)
(* word be flushed and is written to the line right after it, leaving an   *)
(* empty word; one that does not fit is appended to the current word,      *)
(* which is not flushed.                                                   *)
(***************************************************************************)
C15_FittingBreakEndsWord ==
  [][AtBreakToken =>
       /\ SpaceFlushed
       /\ IF BreakFits
            THEN /\ buf' = buf \o space \o word \o NextToken.seq
                 /\ word' = <<>>
                 /\ wordLen' = 0
                 /\ curWidth' = curWidth + Len(space) + wordLen + NextToken.width
          ELSE /\ buf' = buf \o space
               /\ word' = word \o NextToken.seq
               /\ wordLen' = wordLen + NextToken.width
               /\ curWidth' = curWidth + Len(space)]_vars

\* A hyphen that fits ends the word "a"; a configured breakpoint that does
\* not fit starts the word that goes to the next line.
C15_Witness ==
  /\ pc = "done"
  /\ Breakpoints = <<"/">>
  /\ Limit = 3
  /\ input = TokGlyph \o TokHyphen \o TokSlash \o TokGlyph
  /\ result = TokGlyph \o TokHyphen \o TokLF \o TokSlash \o TokGlyph

\* s is one word of narrow glyphs: no whitespace, breakpoint or control unit.
IsPlainWord(s) == \A i \in DOMAIN s : s[i] = "a"

(***************************************************************************)
(* C16: a word is flushed in its middle only when the next glyph would     *)
(* take it past limit, so a word of narrow glyphs wider than limit, at the *)
(* start of a line, is split into lines of width exactly limit, the last   *)
(* one excepted.                                                           *)
(***************************************************************************)
C16_LongWordFillsLines ==
  (pc = "done" /\ Limit >= 1 /\ IsPlainWord(input) /\ Len(input) > Limit) =>
    LET widths == LineWidths(result)
    IN \A i \in 1..(Len(widths) - 1) : widths[i] = Limit

(***************************************************************************)
(* The step of Wrap on a text token that directly follows an escape        *)
(* sequence: the sequence is then the last token of the pending word.      *)
(***************************************************************************)
LastToken(s) == LET toks == DecodeAll(s) IN toks[Len(toks)]

AtDecoratedText ==
  /\ pc = "loop"
  /\ Len(b) > 0
  /\ NextToken.width > 0
  /\ ~IsBlank(NextToken.seq)
  /\ word # <<>>
  /\ LastToken(word).seq[1] = "ESC"

\* The last n units of s.
Last(s, n) == SubSeq(s, Len(s) - n + 1, Len(s))

(***************************************************************************)
(* C17: no line break comes between an escape sequence and the text token  *)
(* that follows it in the input.  After the step on that token, the        *)
(* sequence and the token are next to each other at the end of what is     *)
(* written and pending (buf, then word), with nothing inserted between or  *)
(* in them.                                                                *)
(***************************************************************************)
C17_SequenceStaysWithText ==
  [][AtDecoratedText =>
       LET pair == LastToken(word).seq \o NextToken.seq
           out == buf' \o word'
           who == mark' \o Rep("in", Len(word'))
       IN /\ Len(out) >= Len(pair)
          /\ Last(out, Len(pair)) = pair
          /\ \A k \in DOMAIN Last(who, Len(pair)) : Last(who, Len(pair))[k] = "in"]_vars

(***************************************************************************)
(* The step of Wrap on a whitespace text token.                            *)
(***************************************************************************)
AtSpaceToken ==
  /\ pc = "loop"
  /\ Len(b) > 0
  /\ NextToken.width > 0
  /\ IsBlank(NextToken.seq)

\* The width of the line once the current word is flushed into it.
LineWidthWithWord ==
  IF word = <<>> THEN curWidth ELSE curWidth + Len(space) + wordLen

\* The text that every line of s shows starts with no whitespace.
NoLeadingSpace(s) ==
  LET lines == VisibleLines(s)
  IN \A i \in DOMAIN lines : lines[i] = <<>> \/ lines[i][1] # " "

(***************************************************************************)
(* C18: a whitespace token first flushes the current word.  If the line    *)
(* then has no content and PreserveSpace is off the run is discarded and   *)
(* nothing is pending; otherwise the run is appended to the pending space. *)
(* So with PreserveSpace off no line of the output starts with whitespace. *)
(***************************************************************************)
C18_LeadingSpaceDiscarded ==
  /\ []((pc = "done" /\ Limit >= 1 /\ ~PreserveSpace) => NoLeadingSpace(result))
  /\ [][AtSpaceToken =>
          /\ word' = <<>> /\ wordLen' = 0
          /\ buf' = (IF word = <<>> THEN buf ELSE buf \o space \o word)
          /\ curWidth' = LineWidthWithWord
          /\ space' = IF ~PreserveSpace /\ LineWidthWithWord = 0 THEN <<>>
                      ELSE (IF word = <<>> THEN space ELSE <<>>) \o NextToken.seq]_vars

\* Spaces at the start of the text and after a line feed, all discarded.
C18_Witness ==
  /\ pc = "done"
  /\ ~PreserveSpace
  /\ Limit = 2
  /\ input = TokSpace \o TokGlyph \o TokLF \o TokSpace
  /\ result = TokGlyph \o TokLF \o TokLF

(***************************************************************************)
(* Inputs of ordinary narrow glyphs and whitespace runs only, longer than  *)
(* the inputs of the other families.                                       *)
(***************************************************************************)
PlainAlphabet == {TokGlyph, TokSpace}

PlainInputs == {Flatten(ts) : ts \in SeqsUpTo(PlainAlphabet, MaxPlainLen)}

InitPlain ==
  /\ \E in \in PlainInputs, limit \in 1..MaxPlainLimit, preserve \in BOOLEAN :
       WrapCalled(in, limit, preserve, <<>>)
  /\ IdleConc /\ IdleWidth /\ IdleDamage

SpecPlain == InitPlain /\ [][Next]_vars

IsPlainText(s) == \A i \in DOMAIN s : s[i] \in {"a", " "}

\* The unit that the last iteration consumed, "none" before the first.
LastUnit ==
  IF pc = "loop" /\ Len(b) < Len(input) THEN input[Len(input) - Len(b)] ELSE "none"

(***************************************************************************)
(* C19: on an input of narrow glyphs and whitespace only, with limit >= 1, *)
(* the line width never exceeds limit; after every glyph token, whose      *)
(* line-break check has then run, line width + pending space + word width  *)
(* is at most limit; and every line of the output is at most limit wide.   *)
(***************************************************************************)
C19_PlainTextWithinLimit ==
  (IsPlainText(input) /\ Limit >= 1) =>
    /\ curWidth <= Limit
    /\ LastUnit = "a" => curWidth + Len(space) + wordLen <= Limit
    /\ pc = "done" => LinesFit(result, Limit)

\* A word longer than the limit, a run of two spaces and a second word.
C19_Witness ==
  /\ pc = "done"
  /\ PreserveSpace
  /\ Limit = 2
  /\ input = <<" ", "a", "a", "a", " ", " ", "a">>
  /\ LineCount(result) = 3

(***************************************************************************)
(* Inputs with escape sequences that are cut short: a lone ESC, a CSI      *)
(* without its final byte, an OSC without its terminator.  Wrap is a       *)
(* sequential loop: a step that is enabled is taken.                       *)
(***************************************************************************)
TokEsc == <<"ESC">>

TokOscCut == <<"ESC", "]", "8", ";", ";", "u">>

CutAlphabet == {TokGlyph, TokSpace, TokCut, TokEsc, TokOscCut}

CutInputs == {Flatten(ts) : ts \in SeqsUpTo(CutAlphabet, MaxCutLen)}

InitCut ==
  /\ \E in \in CutInputs, limit \in 0..MaxCutLimit, preserve \in BOOLEAN :
       WrapCalled(in, limit, preserve, <<>>)
  /\ IdleConc /\ IdleWidth /\ IdleDamage

SpecCut == InitCut /\ [][Next]_vars /\ WF_vars(Next)

(***************************************************************************)
(* C20: Wrap terminates.  Every iteration of the loop shortens the input   *)
(* that remains, so there are at most len(input) of them; the call then    *)
(* returns, and what it returns holds the whole pending word, also when    *)
(* the input ends in an unterminated escape sequence.                      *)
(***************************************************************************)
C20_WrapTerminates ==
  /\ <>(pc = "done")
  /\ [][(pc = "loop" /\ pc' = "loop") => Len(b') < Len(b)]_vars
  /\ [][(pc = "loop" /\ pc' = "done") =>
          /\ b = <<>>
          /\ word' = <<>>
          /\ result' = buf'
          /\ Len(result') >= Len(buf) + Len(word)
          /\ Last(result', Len(word)) = word]_vars

\* The input ends in a CSI sequence without final byte: the decoder is left
\* in the middle of it and the sequence is returned with the word.
C20_Witness ==
  /\ pc = "done"
  /\ Limit = 1
  /\ input = TokGlyph \o TokSpace \o TokCut
  /\ state = "csi"
  /\ Last(result, Len(TokCut)) = TokCut

====
